---- MODULE Spec2Model ----
(***************************************************************************)
(* Model of the calibration / search pipeline of initialization/core.py:   *)
(* the stabilization prober (_single_time_to_stable), the mass-balance     *)
(* calibrator (find_mb_offset), the candidate generator (generation) and   *)
(* the candidate identifier (identification), the fitness functions, the   *)
(* synthetic-experiment batch, the process pools of the batches, the       *)
(* search of one glacier (find_possible_glaciers with evaluation) and the  *)
(* output files of the workers of every process pool.  The                 *)
(* forward flow model is an oracle whose outcomes are drawn from small     *)
(* sets.  Every component has a specification of its own over the shared   *)
(* variables; the variables of the other components keep their initial     *)
(* values.                                                                 *)
(***************************************************************************)
EXTENDS Integers, Sequences, FiniteSets, TLC

VARIABLES
    pc,          \* position of the running function
    \* ---- _single_time_to_stable
    year,        \* local `year`
    vol1,        \* model_1.volume_m3_ts()[99] of the last comparison
    vol2,        \* model_2.volume_m3_ts()[99] of the last comparison
    stableFiles, \* suffixes N of the model_geometry_N.nc files in gdir.dir
    wrote,       \* add_to_diagnostics('years_to_stable', ..) was called
    diag,        \* diagnostics.json: years_to_stable, or Absent
    \* ---- find_mb_offset
    oracle,      \* the flow model's answer to a calibration run (an input)
    bounds,      \* local `bounds`, <<lower, upper>> in hundredths
    i,           \* local `i`
    df,          \* the iteration log, a sequence of rows
    mb_offset,   \* the offset selected at line 240, or NoOffset
    csvWritten,  \* experiment_iteration.csv was written
    calFiles,    \* the model_geometry_calibration_* files in gdir.dir
    \* ---- generation
    genOracle,       \* the flow model's answer to a random run (an input)
    requested,       \* every (seed, temp_bias) handed to _run_random_parallel
    random_run_list, \* local `random_run_list`, a sequence of rows
    \* ---- identification
    ensemble,    \* argument `list`: the rows of the ensemble and their output
    n_cand,      \* argument `n`
    pos,         \* rows of `list` the t_stag loop has passed
    scanned,     \* local `i` of identification
    t_stag,      \* local `t_stag`
    indices,     \* local `indices`: the picked rows of df, <<row of list, time>>
    candidates,  \* the returned frame, a sequence of [time, suffix]
    \* ---- fitness_value, fitness_value_fls
    fls1,        \* model1.fls: a sequence of flowlines, each a sequence of points
    fls2,        \* model2.fls
    fitness,     \* the returned value, as [num, den]
    \* ---- synthetic_experiments_parallel
    expFile,     \* per glacier: its model_geometry_synthetic_experiment file
    expFails,    \* per glacier: the flow model raises in its experiment (an input)
    answer,      \* the operator's answer to query_yes_no
    expDone,     \* the glaciers whose worker has returned
    \* ---- Pool.map of the four batches
    batchKind,   \* which batch: the worker function mapped over the items
    procs,       \* processes of the pool
    fate,        \* per item: what happens inside its worker (an input)
    chunkNext,   \* per chunk: [next item of the chunk, the chunk raised]
    batchOut,    \* what the coordinator gets from pool.map
    \* ---- find_possible_glaciers and evaluation
    delete,      \* argument `delete`
    failedRuns,  \* ensemble members whose random run exceeds the domain (an input)
    cands,       \* what the flow model makes of every candidate (an input)
    call,        \* 1 for the first call, 2 for the repeated one
    dirFiles,    \* the model files of year y0 in gdir.dir
    subFiles,    \* the model files in gdir.dir/<y0>
    resultPkl,   \* the pickled result table in gdir.dir, or NoTable
    suffix_list, \* evaluation: the pool's results
    results,     \* evaluation: df, a sequence of rows
    save,        \* find_possible_glaciers: the dict `save`
    simRuns,     \* forward simulations started by the current call
    returned,    \* the tables the calls returned so far
    n_args,      \* argument `n` of the first and of the second call
    \* ---- the output files of the workers of one pool.map
    fanout,      \* which pool.map: the worker function and the round
    outputs      \* per worker, in task order: the files its run writes

proberVars == <<year, vol1, vol2, stableFiles, wrote>>
calVars == <<oracle, bounds, i, df, mb_offset, csvWritten, calFiles>>
genVars == <<genOracle, requested, random_run_list>>
identVars == <<ensemble, n_cand, pos, scanned, t_stag, indices, candidates>>
fitVars == <<fls1, fls2, fitness>>
expVars == <<expFile, expFails, answer, expDone>>
batchVars == <<batchKind, procs, fate, chunkNext, batchOut>>
findVars == <<delete, failedRuns, cands, call, dirFiles, subFiles, resultPkl,
              suffix_list, results, save, simRuns, returned, n_args>>
fanVars == <<fanout, outputs>>
pipelineVars == <<proberVars, diag, calVars, genVars, identVars>>
stageVars == <<fitVars, expVars, batchVars, findVars, fanVars>>
vars == <<pc, pipelineVars, stageVars>>

(***************************************************************************)
(* Small helpers                                                           *)
(***************************************************************************)
Abs(x) == IF x < 0 THEN -x ELSE x

\* the key years_to_stable is missing from diagnostics.json
Absent == -1

\* -np.inf, the area difference logged for a failed calibration run
NegInf == -1000000000

\* no offset was selected
NoOffset == 1000000000

RECURSIVE SeqMin(_)
SeqMin(s) ==
    IF Len(s) = 1 THEN s[1]
    ELSE LET m == SeqMin(Tail(s)) IN IF s[1] <= m THEN s[1] ELSE m

(***************************************************************************)
(* StabilizationProber: _single_time_to_stable                             *)
(***************************************************************************)
\* largest volume (model units) a 100-year window can end with
MaxVol == 21
Volumes == 0 .. MaxVol

\* a years_to_stable value left in diagnostics.json by an earlier call
PriorYears == 700

\* nyears of one chained run, and the first value of `year`
Window == 100

\* while year<10001
YearCap(y) == y < 10001

\* line 82: if year<10001
WritesDiagLate(y) == y < 10101
WritesDiagAlways(y) == TRUE
WritesDiag(y) == y < 10001

\* np.abs(v2 - v1) / (v1 + 0.000001) < 0.05 on whole-number volumes:
\* 20*|v2 - v1| < v1 + 0.000001  <=>  20*|v2 - v1| <= v1
IsStable(v1, v2) == 20 * Abs(v2 - v1) <= v1

\* gdir.add_to_diagnostics('years_to_stable', year+100)
RecordedYearsNoMargin(y) == y
RecordedYears(y) == y + 100

\* files removed by the clean-up loop: names ending in '00.nc'
EndsWith00(n) == n % 100 = 0

ProberIdle ==
    /\ year = 0
    /\ vol1 = 0
    /\ vol2 = 0
    /\ stableFiles = {}
    /\ wrote = FALSE

CalIdle ==
    /\ oracle = [slope |-> 0, root |-> 0, failBelow |-> 0, failStage |-> "none",
                 hasLog |-> TRUE]
    /\ bounds = <<0, 0>>
    /\ i = 0
    /\ df = <<>>
    /\ mb_offset = NoOffset
    /\ csvWritten = FALSE
    /\ calFiles = {}

\* no tick of the bias grid
NoTick == 1000

GenIdle ==
    /\ genOracle = [failBelow |-> 0, zeroFrom |-> 0, corrupt |-> NoTick]
    /\ requested = {}
    /\ random_run_list = <<>>

IdentIdle ==
    /\ ensemble = <<>>
    /\ n_cand = 0
    /\ pos = 0
    /\ scanned = 0
    /\ t_stag = 0
    /\ indices = <<>>
    /\ candidates = <<>>

\* no result table on disk
NoTable == <<"no table">>

FitIdle ==
    /\ fls1 = <<>>
    /\ fls2 = <<>>
    /\ fitness = [num |-> 0, den |-> 0]

ExpIdle ==
    /\ expFile = <<>>
    /\ expFails = <<>>
    /\ answer = "not asked"
    /\ expDone = {}

BatchIdle ==
    /\ batchKind = "none"
    /\ procs = 0
    /\ fate = <<>>
    /\ chunkNext = <<>>
    /\ batchOut = "pending"

FindIdle ==
    /\ delete = FALSE
    /\ failedRuns = 0
    /\ cands = <<>>
    /\ call = 0
    /\ dirFiles = {}
    /\ subFiles = {}
    /\ resultPkl = NoTable
    /\ suffix_list = <<>>
    /\ results = <<>>
    /\ save = <<>>
    /\ simRuns = 0
    /\ returned = <<>>
    /\ n_args = <<>>

FanIdle ==
    /\ fanout = "none"
    /\ outputs = <<>>

StagesIdle == FitIdle /\ ExpIdle /\ BatchIdle /\ FindIdle /\ FanIdle

ProberInit ==
    /\ pc = "probe_start"
    /\ ProberIdle
    /\ diag \in {Absent, PriorYears}
    /\ CalIdle
    /\ GenIdle
    /\ IdentIdle
    /\ StagesIdle

\* line 34: without model_flowlines.pkl the function does nothing
ProbeNoFlowlines ==
    /\ pc = "probe_start"
    /\ pc' = "probe_skipped"
    /\ UNCHANGED <<proberVars, diag, calVars, genVars, identVars>>
    /\ UNCHANGED stageVars

\* lines 35-36
ProbeBegin ==
    /\ pc = "probe_start"
    /\ pc' = "probe_loop"
    /\ year' = Window
    /\ UNCHANGED <<vol1, vol2, stableFiles, wrote, diag, calVars, genVars, identVars>>
    /\ UNCHANGED stageVars

\* lines 40-55: the first pass runs two chained windows and compares them
ProbeFirstWindows ==
    /\ pc = "probe_loop"
    /\ YearCap(year)
    /\ year = Window
    /\ \E v1 \in Volumes, v2 \in Volumes :
        /\ vol1' = v1
        /\ vol2' = v2
        /\ stableFiles' = stableFiles \cup {year, year + Window}
        /\ year' = year + Window
        /\ pc' = IF IsStable(v1, v2) THEN "probe_cleanup" ELSE "probe_loop"
    /\ UNCHANGED <<wrote, diag, calVars, genVars, identVars>>
    /\ UNCHANGED stageVars

\* lines 57-70: every later pass chains one more window onto the last one
ProbeNextWindow ==
    /\ pc = "probe_loop"
    /\ YearCap(year)
    /\ year # Window
    /\ \E v2 \in Volumes :
        /\ vol1' = vol2
        /\ vol2' = v2
        /\ stableFiles' = stableFiles \cup {year + Window}
        /\ year' = year + Window
        /\ pc' = IF IsStable(vol2, v2) THEN "probe_cleanup" ELSE "probe_loop"
    /\ UNCHANGED <<wrote, diag, calVars, genVars, identVars>>
    /\ UNCHANGED stageVars

\* a run_random_climate call raises (the glacier exceeds the domain): nothing
\* in _single_time_to_stable catches it
ProbeRunRaises ==
    /\ pc = "probe_loop"
    /\ YearCap(year)
    /\ pc' = "probe_raised"
    /\ UNCHANGED <<proberVars, diag, calVars, genVars, identVars>>
    /\ UNCHANGED stageVars

\* line 37: the loop ends without a break
ProbeLoopExit ==
    /\ pc = "probe_loop"
    /\ ~YearCap(year)
    /\ pc' = "probe_cleanup"
    /\ UNCHANGED <<proberVars, diag, calVars, genVars, identVars>>
    /\ UNCHANGED stageVars

\* lines 76-83: every model_geometry_N.nc is removed, then the result is
\* written when the loop ended by a break
ProbeFinish ==
    /\ pc = "probe_cleanup"
    /\ stableFiles' = {n \in stableFiles : ~EndsWith00(n)}
    /\ wrote' = WritesDiag(year)
    /\ diag' = IF WritesDiag(year) THEN RecordedYears(year) ELSE diag
    /\ pc' = "probe_done"
    /\ UNCHANGED <<year, vol1, vol2, calVars, genVars, identVars>>
    /\ UNCHANGED stageVars

ProberNext ==
    \/ ProbeNoFlowlines
    \/ ProbeBegin
    \/ ProbeFirstWindows
    \/ ProbeNextWindow
    \/ ProbeRunRaises
    \/ ProbeLoopExit
    \/ ProbeFinish

SpecProber == ProberInit /\ [][ProberNext]_vars

\* C1 (as stated): a written years_to_stable is a multiple of 100 that is at
\* least 200 and at most 10000.
C1_Original ==
    (pc = "probe_done" /\ wrote) =>
        (diag % 100 = 0 /\ diag >= 200 /\ diag <= 10000)

\* C1 (amended): a written years_to_stable is a multiple of 100 that is at
\* least 300 and at most 10100: the loop may break with year = 10000, and
\* 100 is added to the year of the break.
C1_WrittenYearsRange ==
    (pc = "probe_done" /\ wrote) =>
        (diag % 100 = 0 /\ diag >= 300 /\ diag <= 10100)

\* the threshold is met only by the last window the cap allows
C1_Witness == pc = "probe_done" /\ wrote /\ diag = 10100 /\ vol1 # vol2

\* C2 (as stated): when the threshold is first met by the second chained run
\* compared with the first, the prober records years_to_stable = 200.
C2_Original ==
    (pc = "probe_done" /\ year = 2 * Window) => (wrote /\ diag = 200)

\* C2 (amended): when the threshold is first met by the second chained run
\* compared with the first, the prober records years_to_stable = 300 (the
\* 200 simulated years plus the margin of 100).
C2_RecordsThreeHundred ==
    (pc = "probe_done" /\ year = 2 * Window) => (wrote /\ diag = 300)

\* the second run ends within 5% of the first, with a different volume
C2_Witness ==
    pc = "probe_done" /\ year = 2 * Window /\ vol1 # vol2 /\ diag = 300

\* C19: when no window meets the 5% threshold before the cap, the prober
\* stops after a bounded number of runs (year never passes 10100, one run
\* per 100 years) and its last step writes no years_to_stable: the
\* diagnostics record stays as it was.
C19_NeverStableWritesNothing ==
    /\ [](year <= 10100 /\ \A n \in stableFiles : n <= 10100)
    /\ [][(pc = "probe_cleanup" /\ ~YearCap(year) /\ ~IsStable(vol1, vol2))
            => (pc' = "probe_done" /\ ~wrote' /\ diag' = diag)]_vars

\* C19: the cap was reached without a stable window and the value of an
\* earlier call is still in the diagnostics record
C19_Witness ==
    /\ pc = "probe_done"
    /\ ~YearCap(year)
    /\ ~IsStable(vol1, vol2)
    /\ ~wrote
    /\ diag = PriorYears

(***************************************************************************)
(* MassBalanceCalibrator: find_mb_offset and _single_calibration_run.      *)
(* Offsets are whole hundredths (every offset is rounded to 2 decimals),   *)
(* area differences are whole 1e-6 km2.  The oracle is linear in the       *)
(* offset: rgi_area_km2 - area(h) = slope * (10*h - root), with `root` the *)
(* offset (in thousandths) at which the simulated area equals the observed *)
(* one, and a run fails for every offset below failBelow.                  *)
(***************************************************************************)
\* find_mb_offset(gdir, ys, a=-1000, b=1000), in hundredths
BracketLo == -100000
BracketHi == 100000

\* max_it = 15
max_it == 15

\* abs(diff) < 1e-4, in 1e-6 km2
TolFine == 100

\* abs(diff) < 1e-3, in 1e-6 km2
TolCoarse == 1000

\* bounds[1] - bounds[0] <= 0.5, in hundredths
NarrowWidth == 50

Slopes == {1, 30, -1}
Roots == {0, 3335, 15625, -250005, 999995}
FailThresholds == {BracketLo, -50000, 1, BracketHi + 1}

Oracles ==
    [slope : Slopes, root : Roots, failBelow : FailThresholds,
     failStage : {"random", "past"}, hasLog : BOOLEAN]

\* round((bounds[0] + bounds[1]) / 2, 2): the midpoint of two offsets with two
\* decimals has at most three.  A third decimal of 5 is a tie: when both
\* bounds are multiples of 0.25 the midpoint is an exact binary fraction and
\* round() takes the even neighbour; otherwise the double lies on either side
\* of the tie and either neighbour can result.
Midpoints(lo, hi) ==
    LET s == lo + hi
        f == s \div 2
    IN  IF s % 2 = 0 THEN {f}
        ELSE IF lo % 25 = 0 /\ hi % 25 = 0
             THEN {IF f % 2 = 0 THEN f ELSE f + 1}
             ELSE {f, f + 1}

\* gdir.rgi_area_km2 - ex_mod2.area_km2_ts()[ye]
AreaDiff(o, h) == o.slope * (10 * h - o.root)

\* lines 116-126: years_to_stable is read (a KeyError when it is absent) and
\* the two-stage run does not exceed the domain
TwoStageRunSucceeds(o, h) == diag # Absent /\ h >= o.failBelow

\* _single_calibration_run returns a FileModel: the output of an earlier run
\* with this offset is on disk, or the two-stage run succeeds
RunSucceeds(o, files, h) ==
    \/ [kind |-> "past", off |-> h] \in files
    \/ TwoStageRunSucceeds(o, h)

\* the files a calibration run with offset h leaves in gdir.dir
FilesAfterRun(o, files, h) ==
    IF [kind |-> "past", off |-> h] \in files THEN files
    ELSE IF TwoStageRunSucceeds(o, h)
         THEN files \cup {[kind |-> "random", off |-> h],
                          [kind |-> "past", off |-> h]}
         ELSE IF diag # Absent /\ o.failStage = "past"
              THEN files \cup {[kind |-> "random", off |-> h]}
              ELSE files

\* lines 218-224
LoggedDiff(o, files, h) ==
    IF RunSucceeds(o, files, h) THEN AreaDiff(o, h) ELSE NegInf

\* line 230
Converged(bnds, diff) ==
    \/ Abs(diff) < TolFine
    \/ (bnds[2] - bnds[1] <= NarrowWidth /\ Abs(diff) < TolCoarse)

\* lines 233-236
NarrowBracketFlipped(bnds, mid, diff) ==
    IF diff < 0 THEN <<bnds[1], mid>> ELSE <<mid, bnds[2]>>
NarrowBracket(bnds, mid, diff) ==
    IF diff < 0 THEN <<mid, bnds[2]>> ELSE <<bnds[1], mid>>

\* df.area_diff.abs().idxmin(): the first row with the smallest |area_diff|
AbsDiffs(rows) == [k \in 1 .. Len(rows) |-> Abs(rows[k].area_diff)]
IdxMinLast(rows) == Len(rows)
IdxMin(rows) ==
    LET m == SeqMin(AbsDiffs(rows))
    IN  CHOOSE k \in 1 .. Len(rows) :
            /\ AbsDiffs(rows)[k] = m
            /\ \A j \in 1 .. k - 1 : AbsDiffs(rows)[j] # m

\* line 245/247: the files that do not end in '_' + str(mb_offset) + '.nc'
KeptFiles(files, sel) == {f \in files : f.off = sel}

CalInit ==
    /\ pc = "cal_loop"
    /\ ProberIdle
    /\ diag \in {Absent, PriorYears}
    /\ oracle \in Oracles
    /\ bounds = <<BracketLo, BracketHi>>
    /\ i = 0
    /\ df = <<>>
    /\ mb_offset = NoOffset
    /\ csvWritten = FALSE
    /\ calFiles = {}
    /\ GenIdle
    /\ IdentIdle
    /\ StagesIdle

\* lines 214-237, one pass of the loop whose calibration run returns (a model
\* or the error string read from log.txt)
CalIterate ==
    /\ pc = "cal_loop"
    /\ i < max_it
    /\ \E mid \in Midpoints(bounds[1], bounds[2]) :
        LET ok == RunSucceeds(oracle, calFiles, mid)
            diff == LoggedDiff(oracle, calFiles, mid)
        IN  /\ ok \/ oracle.hasLog
            /\ calFiles' = FilesAfterRun(oracle, calFiles, mid)
            /\ df' = Append(df, [mb_offset |-> mid, area_diff |-> diff,
                                 failed |-> ~ok])
            /\ IF Converged(bounds, diff)
               THEN /\ pc' = "cal_select"
                    /\ UNCHANGED <<bounds, i>>
               ELSE /\ bounds' = NarrowBracket(bounds, mid, diff)
                    /\ i' = i + 1
                    /\ pc' = "cal_loop"
    /\ UNCHANGED <<proberVars, diag, oracle, mb_offset, csvWritten, genVars, identVars>>
    /\ UNCHANGED stageVars

\* lines 131-134 and 251-252: the run fails and log.txt cannot be read; the
\* error leaves _single_calibration_run and is swallowed by find_mb_offset
CalAbort ==
    /\ pc = "cal_loop"
    /\ i < max_it
    /\ \E mid \in Midpoints(bounds[1], bounds[2]) :
        /\ ~RunSucceeds(oracle, calFiles, mid)
        /\ ~oracle.hasLog
        /\ calFiles' = FilesAfterRun(oracle, calFiles, mid)
    /\ pc' = "cal_aborted"
    /\ UNCHANGED <<proberVars, diag, oracle, bounds, i, df, mb_offset,
                   csvWritten, genVars, identVars>>
    /\ UNCHANGED stageVars

\* line 214: the iteration budget is used up
CalBudgetSpent ==
    /\ pc = "cal_loop"
    /\ i >= max_it
    /\ pc' = "cal_select"
    /\ UNCHANGED <<proberVars, diag, calVars, genVars, identVars>>
    /\ UNCHANGED stageVars

\* lines 240-248
CalSelect ==
    /\ pc = "cal_select"
    /\ mb_offset' = df[IdxMin(df)].mb_offset
    /\ csvWritten' = TRUE
    /\ calFiles' = KeptFiles(calFiles, df[IdxMin(df)].mb_offset)
    /\ pc' = "cal_done"
    /\ UNCHANGED <<proberVars, diag, oracle, bounds, i, df, genVars, identVars>>
    /\ UNCHANGED stageVars

CalNext ==
    \/ CalIterate
    \/ CalAbort
    \/ CalBudgetSpent
    \/ CalSelect

SpecCalib == CalInit /\ [][CalNext]_vars

\* the oracle never fails, its area decreases with the offset and the target
\* area is attained inside the bracket
DecreasingOracle ==
    /\ diag # Absent
    /\ oracle.slope > 0
    /\ oracle.failBelow = BracketLo
    /\ 10 * BracketLo <= oracle.root /\ oracle.root <= 10 * BracketHi

SelectedDiff == df[IdxMin(df)].area_diff

\* C3 (as stated): with a monotonic oracle and a reachable target the
\* calibrator ends with an offset whose area difference is below 1e-4, or
\* below 1e-3 with a bracket of at most 0.5.  Stated here for the oracles
\* whose area decreases with the offset, the direction the bisection expects.
C3_Original ==
    (pc = "cal_done" /\ DecreasingOracle) => Converged(bounds, SelectedDiff)

\* C3 (amended): with a never-failing oracle whose area decreases with the
\* offset and a target attained inside [-1000, 1000], the offset attaining the
\* target stays inside the bracket and at most 15 iterations are logged; when
\* the loop stops before its budget is spent the selected offset meets the
\* tolerance; when the budget is spent the bracket is at most 0.07 wide and
\* the selected offset lies within 0.07 of the offset attaining the target
\* (the area tolerance need not be met).
C3_BisectionBrackets ==
    DecreasingOracle =>
        /\ 10 * bounds[1] <= oracle.root /\ oracle.root <= 10 * bounds[2]
        /\ Len(df) <= max_it
        /\ (pc = "cal_done" /\ i < max_it) =>
                /\ mb_offset = df[Len(df)].mb_offset
                /\ Converged(bounds, SelectedDiff)
        /\ (pc = "cal_done" /\ i = max_it) =>
                /\ bounds[2] - bounds[1] <= 7
                /\ Abs(10 * mb_offset - oracle.root) <= 70

\* the loop converges late, on an offset the tolerance accepts
C3_Witness ==
    /\ pc = "cal_done" /\ DecreasingOracle
    /\ i < max_it /\ Len(df) > 10
    /\ Abs(SelectedDiff) < TolFine

AllFailed == Len(df) = max_it /\ \A k \in 1 .. Len(df) : df[k].failed

\* C4: when every bisection iteration fails, the calibrator ends without
\* selecting an offset, without writing the iteration log and without keeping
\* calibration files for a selected offset.
C4_AllFailSelectsNothing ==
    (pc \in {"cal_done", "cal_aborted"} /\ AllFailed) =>
        (mb_offset = NoOffset /\ ~csvWritten /\ calFiles = {})

\* C5: the selected offset is the offset of a logged iteration whose absolute
\* area difference is the smallest of all logged iterations.
C5_SelectsSmallestAbsDiff ==
    pc = "cal_done" =>
        \E k \in 1 .. Len(df) :
            /\ df[k].mb_offset = mb_offset
            /\ \A j \in 1 .. Len(df) :
                Abs(df[k].area_diff) <= Abs(df[j].area_diff)

\* the budget is spent and the selected iteration is not the last one
C5_Witness ==
    /\ pc = "cal_done" /\ i = max_it
    /\ \A k \in 1 .. Len(df) : ~df[k].failed
    /\ mb_offset # df[Len(df)].mb_offset
    /\ Abs(SelectedDiff) < Abs(df[Len(df)].area_diff)

\* C18: when years_to_stable is absent the calibrator and the generator stop
\* at once: no bisection iteration is logged (none with area difference
\* -inf), the bracket is not moved, no further iteration is made and no
\* member run is attempted.
C18_AbsentBlocksDownstream ==
    diag = Absent =>
        /\ df = <<>>
        /\ bounds \in {<<0, 0>>, <<BracketLo, BracketHi>>}
        /\ i = 0
        /\ random_run_list = <<>>

(***************************************************************************)
(* CandidateGenerator: generation, _run_random_parallel, _run_random_task. *)
(* A temperature bias is a whole number of 0.05 steps ("ticks"): -3 is     *)
(* tick -60, 1.95 is tick 39, 2.0 is tick 40.  The oracle makes a run fail *)
(* (glacier exceeds the domain) for every bias below failBelow, makes the  *)
(* ice vanish (minimum volume 0) for every bias from zeroFrom on, and one  *)
(* member may have an unreadable output file left on disk (corrupt).       *)
(***************************************************************************)
\* a value of years_to_stable written by the prober
StableYears == 300

\* np.arange(-3, 2, 0.05), rounded: 100 values, -3.0 ... 1.95
BaseBiases == [k \in 1 .. 100 |-> k - 61]

\* np.arange(-5, -3, 0.05), rounded: 40 values, -5.0 ... -3.05
LowerBiases == [k \in 1 .. 40 |-> k - 101]

\* np.arange(2.05, 3, 0.05), rounded: ceil(0.95/0.05) = 20 values in double
\* arithmetic, 2.05 ... 3.0
UpperBiases == [k \in 1 .. 20 |-> k + 40]

\* [(i ** 2, b) for i, b in enumerate(bias_list)]
BaseList == [k \in 1 .. Len(BaseBiases) |->
                [seed |-> (k - 1) * (k - 1), temp_bias |-> BaseBiases[k]]]

\* [((i + n + 1) ** 2, b) for i, b in enumerate(bias_list)]
ExtensionList(biases, n) ==
    [k \in 1 .. Len(biases) |->
        [seed |-> (k + n) * (k + n), temp_bias |-> biases[k]]]

GenOracles ==
    [failBelow : {-101, -60, -59, 0, 61},
     zeroFrom : {-30, 0, 39, 45, 61},
     corrupt : {NoTick, -60, 5, 39, 60}]

\* _run_random_task returns a path: the output file is absent and the run
\* succeeds (a file that is on disk is the corrupt one, whose FileModel fails)
RandomTaskReturnsPath(o, m) ==
    /\ m.temp_bias # o.corrupt
    /\ m.temp_bias >= o.failBelow

\* line 291-292 outside the try: a task whose file is absent reads
\* diagnostics['years_to_stable']
RandomTaskRaises(o, d, m) == m.temp_bias # o.corrupt /\ d = Absent

\* lines 266-275: the rows of the tasks that returned a path, in task order
RunRandomParallel(o, list) ==
    SelectSeq(list, LAMBDA m : RandomTaskReturnsPath(o, m))

\* fmod.volume_m3_ts().min() == 0 for the output of the member with this bias
MinVolumeIsZero(o, b) == b >= o.zeroFrom

TempBiases(rows) == {rows[k].temp_bias : k \in 1 .. Len(rows)}

SetMin(S) == CHOOSE x \in S : \A y \in S : x <= y
SetMax(S) == CHOOSE x \in S : \A y \in S : x >= y

\* random_run_list['temp_bias'].idxmax(), as the bias of that row
IdxMinBias(rows) == SetMin(TempBiases(rows))
IdxMaxBias(rows) == SetMax(TempBiases(rows))

\* line 512: random_run_list['temp_bias'].min() == -3
LowerCheckInverted(rows) == SetMin(TempBiases(rows)) # -60
LowerCheck(rows) == SetMin(TempBiases(rows)) = -60

\* random_run_list.sort_values(by='temp_bias'): the rows by ascending bias,
\* rows of equal bias in their order
Unsorted(rows) == rows
RECURSIVE RowsBetween(_, _, _)
RowsBetween(rows, lo, hi) ==
    IF lo = hi THEN SelectSeq(rows, LAMBDA m : m.temp_bias = lo)
    ELSE LET mid == (lo + hi) \div 2
         IN  RowsBetween(rows, lo, mid) \o RowsBetween(rows, mid + 1, hi)
SortByBias(rows) ==
    IF rows = <<>> THEN <<>>
    ELSE RowsBetween(rows, SetMin(TempBiases(rows)), SetMax(TempBiases(rows)))

SeqToSet(list) == {list[k] : k \in 1 .. Len(list)}

GenInit ==
    /\ pc = "gen_base"
    /\ ProberIdle
    /\ diag \in {Absent, StableYears}
    /\ CalIdle
    /\ genOracle \in GenOracles
    /\ requested = {}
    /\ random_run_list = <<>>
    /\ IdentIdle
    /\ StagesIdle

\* lines 507-509: the base round
GenBase ==
    /\ pc = "gen_base"
    /\ \A k \in 1 .. Len(BaseList) :
            ~RandomTaskRaises(genOracle, diag, BaseList[k])
    /\ requested' = requested \cup SeqToSet(BaseList)
    /\ random_run_list' = RunRandomParallel(genOracle, BaseList)
    /\ pc' = "gen_lower"
    /\ UNCHANGED <<proberVars, diag, calVars, identVars, genOracle>>
    /\ UNCHANGED stageVars

\* a task of the base round raises (years_to_stable is absent); pool.map
\* re-raises in generation
GenTaskRaises ==
    /\ pc = "gen_base"
    /\ ~(\A k \in 1 .. Len(BaseList) :
            ~RandomTaskRaises(genOracle, diag, BaseList[k]))
    /\ requested' = requested \cup SeqToSet(BaseList)
    /\ pc' = "gen_raised"
    /\ UNCHANGED <<proberVars, diag, calVars, identVars, genOracle, random_run_list>>
    /\ UNCHANGED stageVars

\* line 512 on an empty table: random_run_list['temp_bias'] raises KeyError
GenEmptyRaises ==
    /\ pc = "gen_lower"
    /\ random_run_list = <<>>
    /\ pc' = "gen_raised"
    /\ UNCHANGED <<proberVars, diag, calVars, genVars, identVars>>
    /\ UNCHANGED stageVars

\* lines 512-516: the round of biases -5 ... -3.05
GenLowerExtend ==
    /\ pc = "gen_lower"
    /\ random_run_list # <<>>
    /\ LowerCheck(random_run_list)
    /\ LET list == ExtensionList(LowerBiases, Len(random_run_list))
       IN  /\ requested' = requested \cup SeqToSet(list)
           /\ random_run_list' =
                random_run_list \o RunRandomParallel(genOracle, list)
    /\ pc' = "gen_upper"
    /\ UNCHANGED <<proberVars, diag, calVars, identVars, genOracle>>
    /\ UNCHANGED stageVars

\* line 512 is false
GenLowerSkip ==
    /\ pc = "gen_lower"
    /\ random_run_list # <<>>
    /\ ~LowerCheck(random_run_list)
    /\ pc' = "gen_upper"
    /\ UNCHANGED <<proberVars, diag, calVars, genVars, identVars>>
    /\ UNCHANGED stageVars

\* lines 519-532: the member with the largest bias still holds ice, the round
\* of biases 2.05 ... 3.0 is run, and the table is sorted
GenUpperExtend ==
    /\ pc = "gen_upper"
    /\ ~MinVolumeIsZero(genOracle, IdxMaxBias(random_run_list))
    /\ LET list == ExtensionList(UpperBiases, Len(random_run_list))
       IN  /\ requested' = requested \cup SeqToSet(list)
           /\ random_run_list' =
                SortByBias(random_run_list
                           \o RunRandomParallel(genOracle, list))
    /\ pc' = "gen_done"
    /\ UNCHANGED <<proberVars, diag, calVars, identVars, genOracle>>
    /\ UNCHANGED stageVars

\* lines 519-532 when the member with the largest bias lost all its ice
GenUpperSkip ==
    /\ pc = "gen_upper"
    /\ MinVolumeIsZero(genOracle, IdxMaxBias(random_run_list))
    /\ random_run_list' = SortByBias(random_run_list)
    /\ pc' = "gen_done"
    /\ UNCHANGED <<proberVars, diag, calVars, identVars, genOracle, requested>>
    /\ UNCHANGED stageVars

GenNext ==
    \/ GenBase
    \/ GenTaskRaises
    \/ GenEmptyRaises
    \/ GenLowerExtend
    \/ GenLowerSkip
    \/ GenUpperExtend
    \/ GenUpperSkip

SpecGen == GenInit /\ [][GenNext]_vars

RequestedBiases == {r.temp_bias : r \in requested}
LowerRequested == \E r \in requested : r.temp_bias < -60
UpperRequested == \E r \in requested : r.temp_bias > 39

\* the biases of the rows the base round returned, and of the rows in the
\* table before the upper round
BaseReturned == {b \in TempBiases(random_run_list) : b >= -60 /\ b <= 39}
ReturnedBeforeUpper == {b \in TempBiases(random_run_list) : b <= 39}

\* C6 (as stated): the biases -5 ... -3.05 are run if and only if the minimum
\* volume of the most-negative-bias member of the base ensemble is nonzero.
C6_Original ==
    pc \in {"gen_upper", "gen_done"} =>
        (LowerRequested <=> SetMin(BaseReturned) < genOracle.zeroFrom)

\* C6 (amended): the biases -5 ... -3.05 are run if and only if the base
\* member with bias -3 is in the table the base round returned, that is, its
\* run succeeded or its output file on disk parsed; no volume is looked at.
C6_LowerIffMinusThreeReturned ==
    pc \in {"gen_upper", "gen_done"} =>
        (LowerRequested <=>
            (genOracle.failBelow <= -60 /\ genOracle.corrupt # -60))

\* the run with bias -3 failed, the most negative member returned holds ice
\* all along, and the lower biases were not run
C6_Witness ==
    /\ pc = "gen_done"
    /\ ~LowerRequested
    /\ SetMin(BaseReturned) > -60
    /\ SetMin(BaseReturned) < genOracle.zeroFrom

\* C7: the biases 2.05 ... 3.0 are run if and only if the minimum volume of
\* the member with the largest bias in the table so far is nonzero.
C7_UpperIffLargestBiasHoldsIce ==
    pc = "gen_done" =>
        (UpperRequested <=> SetMax(ReturnedBeforeUpper) < genOracle.zeroFrom)

\* the upper biases were run although the member with bias 1.95 was dropped:
\* the check looked at the member with bias 1.9
C7_Witness ==
    /\ pc = "gen_done"
    /\ UpperRequested
    /\ LowerRequested
    /\ SetMax(ReturnedBeforeUpper) = 38

\* C8: the base round requests 100 members from -3 to +2, so that with the
\* upper round every 0.05 grid value between the lowest and the highest
\* requested bias, +2.0 included, is requested.
C8_GridHasNoGap ==
    /\ pc # "gen_base" =>
            Cardinality({r \in requested :
                r.temp_bias >= -60 /\ r.temp_bias <= 40}) = 100
    /\ (pc = "gen_done" /\ UpperRequested) =>
            \A b \in SetMin(RequestedBiases) .. SetMax(RequestedBiases) :
                b \in RequestedBiases

\* C9: the returned table holds exactly the requested members whose task
\* returned a path (the run succeeded; the one file already on disk does not
\* parse), in ascending order of temperature bias.
C9_ReturnedTableSorted ==
    pc = "gen_done" =>
        /\ SeqToSet(random_run_list) =
                {r \in requested : /\ r.temp_bias >= genOracle.failBelow
                                   /\ r.temp_bias # genOracle.corrupt}
        /\ \A k \in 1 .. Len(random_run_list) - 1 :
                random_run_list[k].temp_bias < random_run_list[k + 1].temp_bias

\* both extension rounds ran and some member was dropped
C9_Witness ==
    /\ pc = "gen_done"
    /\ LowerRequested /\ UpperRequested
    /\ Len(random_run_list) > Len(BaseList)
    /\ Len(random_run_list) < Cardinality(requested)

(***************************************************************************)
(* CandidateIdentifier: identification and _find_extrema.                  *)
(* The ensemble handed in is a few rows of the base round, by ascending    *)
(* bias as generation returns them.  The output of a member is a yearly    *)
(* volume series over 0 .. years_to_stable, piecewise linear: from `start` *)
(* to `top` at year `peak`, then falling by `fall` a year down to `level`. *)
(***************************************************************************)
\* rows of the ensemble handed to identification
NumMembers == 2

\* largest number of candidates asked for
MaxN == 2

\* ts.rolling(10)
RollWindow == 10

\* argrelextrema(..., order=20)
ExtremaOrder == 20

\* if i < 10
MaxScanned == 10

\* t_stag > (year - 50)
EndMargin == 50

\* argrelextrema found nothing: [0][0] raises IndexError
NoExtremum == -1

Max2(a, b) == IF a >= b THEN a ELSE b
Min2(a, b) == IF a <= b THEN a ELSE b

\* an overshoot that settles late, a glacier that vanishes, one that grows
\* all along (no extremum), and one that peaks near the end
Shapes ==
    { [start |-> 100, peak |-> 60, top |-> 400, fall |-> 1, level |-> 162],
      [start |-> 298, peak |-> 0, top |-> 298, fall |-> 1, level |-> 0],
      [start |-> 0, peak |-> 300, top |-> 600, fall |-> 0, level |-> 0],
      [start |-> 100, peak |-> 280, top |-> 380, fall |-> 2, level |-> 0] }

\* fmod.volume_m3_ts() at year t
Volume(sh, t) ==
    IF t <= sh.peak
    THEN sh.start + ((sh.top - sh.start) * t) \div Max2(sh.peak, 1)
    ELSE Max2(sh.level, sh.top - sh.fall * (t - sh.peak))

RECURSIVE SumVolume(_, _, _)
SumVolume(sh, a, b) ==
    IF a > b THEN 0 ELSE Volume(sh, a) + SumVolume(sh, a + 1, b)

\* ts.rolling(10).mean().fillna(0), times RollWindow (a sum instead of a mean:
\* the comparisons below are the same)
Smoothed(sh, n) ==
    [t \in 0 .. n |->
        IF t < RollWindow - 1 THEN 0 ELSE SumVolume(sh, t - RollWindow + 1, t)]

\* argrelextrema(smooth_ts.values, np.greater, order=20)[0][0]: the first
\* index strictly greater than its 20 neighbours on either side, indices
\* past an end taken at that end (mode='clip')
IsRelMax(sm, n, t) ==
    \A k \in 1 .. ExtremaOrder :
        /\ sm[t] > sm[Min2(n, t + k)]
        /\ sm[t] > sm[Max2(0, t - k)]

FirstRelMax(sm, n) ==
    LET found == {t \in 0 .. n : IsRelMax(sm, n, t)}
    IN  IF found = {} THEN NoExtremum ELSE SetMin(found)

\* _find_extrema(fmod.volume_m3_ts())
FindExtrema(sh, n) == FirstRelMax(Smoothed(sh, n), n)

\* the series and the first extremum of every output, computed once
VolumeOf == [sh \in Shapes |-> [t \in 0 .. StableYears |-> Volume(sh, t)]]
ExtremumOf == [sh \in Shapes |-> FindExtrema(sh, StableYears)]

\* str(seed) and str(temp_bias) as character codes: '-' 45, '.' 46,
\* '0'-'9' 48-57, '_' 95
RECURSIVE Digits(_)
Digits(n) ==
    IF n < 10 THEN <<48 + n>> ELSE Append(Digits(n \div 10), 48 + (n % 10))

\* the base round's bias 0 is -3 + 60*0.05 = -1.07e-14 in doubles and rounds
\* to -0.0, so it prints with a sign like the negative biases
BiasChars(b) ==
    LET h == 5 * Abs(b)
        sign == IF b <= 0 THEN <<45>> ELSE <<>>
        frac == IF h % 10 = 0 THEN <<48 + ((h % 100) \div 10)>>
                ELSE <<48 + ((h % 100) \div 10), 48 + (h % 10)>>
    IN  sign \o Digits(h \div 100) \o <<46>> \o frac

\* suffix = str(y0)+'_random_' + str(seed)+'_' + str(temp_bias), after the
\* prefix every suffix shares
SuffixChars(m) == Digits(m.seed) \o <<95>> \o BiasChars(m.temp_bias)

\* str < str
LexLess(a, b) ==
    \E k \in 1 .. Len(b) :
        /\ k <= Len(a) + 1
        /\ \A j \in 1 .. k - 1 : a[j] = b[j]
        /\ (k = Len(a) + 1 \/ a[k] < b[k])

\* the rows of df: every year from t_stag on of every member whose file
\* parses, as <<row of list, year>>
DfRowsUnrestricted(ens, ts, n) ==
    {<<j, t>> : j \in {j \in 1 .. Len(ens) : ens[j].readable}, t \in 0 .. n}
DfRows(ens, ts, n) ==
    {<<j, t>> : j \in {j \in 1 .. Len(ens) : ens[j].readable}, t \in ts .. n}

RowVolume(ens, r) == VolumeOf[ens[r[1]].shape][r[2]]

\* df.volume_m3.min(), df.volume_m3.max()
DfMin(ens, rows) == SetMin({RowVolume(ens, r) : r \in rows})
DfMax(ens, rows) == SetMax({RowVolume(ens, r) : r \in rows})

\* |volume - val| for the k-th value (k from 0) of np.linspace(lo, hi, n),
\* times n - 1 when n > 1.  np.linspace(lo, hi, 1) is [lo].
DistanceToMidpoint(v, lo, hi, n, k) ==
    IF n = 1 THEN Abs(2 * v - (lo + hi))
    ELSE Abs(v * (n - 1) - (lo * (n - 1) + k * (hi - lo)))
Distance(v, lo, hi, n, k) ==
    IF n = 1 THEN Abs(v - lo)
    ELSE Abs(v * (n - 1) - (lo * (n - 1) + k * (hi - lo)))

\* the rows argsort can put first: those at the smallest distance (the
\* default quicksort orders equal keys as it pleases)
Nearest(ens, rows, n, k) ==
    LET lo == DfMin(ens, rows)
        hi == DfMax(ens, rows)
        d == [r \in rows |-> Distance(RowVolume(ens, r), lo, hi, n, k)]
        best == SetMin({d[r] : r \in rows})
    IN  {r \in rows : d[r] = best}

\* candidates.sort_values(['suffix', 'time']).drop_duplicates()
CandidateLess(ens, r1, r2) ==
    \/ LexLess(SuffixChars(ens[r1[1]]), SuffixChars(ens[r2[1]]))
    \/ (r1[1] = r2[1] /\ r1[2] < r2[2])

SortCandidates(ens, picked) ==
    LET S == SeqToSet(picked)
        at == [r \in 1 .. Cardinality(S) |->
                CHOOSE x \in S :
                    Cardinality({y \in S : CandidateLess(ens, y, x)}) = r - 1]
    IN  [r \in 1 .. Cardinality(S) |->
            [time |-> at[r][2],
             suffix |-> [seed |-> ens[at[r][1]].seed,
                         temp_bias |-> ens[at[r][1]].temp_bias]]]

\* the rows 1, 21, 41, ... of the base round with their outputs; the files
\* of the first `unreadable` rows do not parse
EnsembleOf(shapes, unreadable) ==
    [j \in 1 .. Len(shapes) |->
        [seed |-> BaseList[20 * j - 19].seed,
         temp_bias |-> BaseList[20 * j - 19].temp_bias,
         shape |-> shapes[j],
         readable |-> j > unreadable]]

\* a table as generation returns it after the round of biases -5 ...: the
\* first MaxScanned rows of the base round and the first NumMembers rows of
\* the lower round (seeded from the MaxScanned rows returned so far), sorted
\* by bias.  The rows of the lower round have the output lowShape, the rows
\* of the base round baseShape; the files of the first `unreadable` rows do
\* not parse
ExtendedEnsembleOf(lowShape, baseShape, unreadable) ==
    LET base == SubSeq(BaseList, 1, MaxScanned)
        lower == SubSeq(ExtensionList(LowerBiases, MaxScanned), 1, NumMembers)
        table == SortByBias(base \o lower)
    IN  [j \in 1 .. Len(table) |->
            [seed |-> table[j].seed,
             temp_bias |-> table[j].temp_bias,
             shape |-> IF table[j].temp_bias < BaseBiases[1]
                       THEN lowShape ELSE baseShape,
             readable |-> j > unreadable]]

\* line 336: if i < 10
ScanOpenAlways(k) == TRUE
ScanOpen(k) == k < MaxScanned

\* lines 353-354: if t_stag>(year-50): t_stag = (year-50)
ClipTStagKept(t, y) == t
ClipTStag(t, y) == IF t > y - EndMargin THEN y - EndMargin ELSE t

IdentInit ==
    /\ pc = "ident_scan"
    /\ ProberIdle
    /\ diag \in {Absent, StableYears}
    /\ CalIdle
    /\ GenIdle
    /\ \/ /\ \E shapes \in [1 .. NumMembers -> Shapes],
                u \in {0, 1, NumMembers} :
                    ensemble = EnsembleOf(shapes, u)
          /\ n_cand \in 1 .. MaxN
       \/ /\ \E lowShape \in Shapes, baseShape \in Shapes,
                u \in {0, 1, NumMembers} :
                    ensemble = ExtendedEnsembleOf(lowShape, baseShape, u)
          /\ n_cand = 1
    /\ pos = 0
    /\ scanned = 0
    /\ t_stag = 0
    /\ indices = <<>>
    /\ candidates = <<>>
    /\ StagesIdle

\* lines 335-348, one row of list: the file of the row is read and its first
\* extremum raises t_stag; an unreadable file or a series without an
\* extremum is passed over
IdentScan ==
    /\ pc = "ident_scan"
    /\ pos < Len(ensemble)
    /\ pos' = pos + 1
    /\ LET m == ensemble[pos + 1]
           t == ExtremumOf[m.shape]
       IN  IF ScanOpen(scanned) /\ m.readable /\ t # NoExtremum
           THEN /\ t_stag' = Max2(t_stag, t)
                /\ scanned' = scanned + 1
           ELSE UNCHANGED <<t_stag, scanned>>
    /\ UNCHANGED <<pc, proberVars, diag, calVars, genVars, ensemble, n_cand,
                   indices, candidates>>
    /\ UNCHANGED stageVars

\* lines 351-352 or 373: years_to_stable is absent (KeyError), or no file of
\* the ensemble parsed and df has no column volume_m3
IdentRaises ==
    /\ pc = "ident_scan"
    /\ pos = Len(ensemble)
    /\ \/ diag = Absent
       \/ \A j \in 1 .. Len(ensemble) : ~ensemble[j].readable
    /\ pc' = "ident_raised"
    /\ UNCHANGED <<proberVars, diag, calVars, genVars, identVars>>
    /\ UNCHANGED stageVars

\* lines 351-369: t_stag is clipped and df is collected
IdentCollect ==
    /\ pc = "ident_scan"
    /\ pos = Len(ensemble)
    /\ diag # Absent
    /\ \E j \in 1 .. Len(ensemble) : ensemble[j].readable
    /\ t_stag' = ClipTStag(t_stag, diag)
    /\ pos' = 0
    /\ pc' = "ident_pick"
    /\ UNCHANGED <<proberVars, diag, calVars, genVars, ensemble, n_cand,
                   scanned, indices, candidates>>
    /\ UNCHANGED stageVars

\* lines 373-376, one value of np.linspace
IdentPick ==
    /\ pc = "ident_pick"
    /\ pos < n_cand
    /\ \E r \in Nearest(ensemble, DfRows(ensemble, t_stag, StableYears),
                        n_cand, pos) :
            indices' = IF \E k \in 1 .. Len(indices) : indices[k] = r
                       THEN indices ELSE Append(indices, r)
    /\ pos' = pos + 1
    /\ UNCHANGED <<pc, proberVars, diag, calVars, genVars, ensemble, n_cand,
                   scanned, t_stag, candidates>>
    /\ UNCHANGED stageVars

\* lines 377-381
IdentReturn ==
    /\ pc = "ident_pick"
    /\ pos = n_cand
    /\ candidates' = SortCandidates(ensemble, indices)
    /\ pc' = "ident_done"
    /\ UNCHANGED <<proberVars, diag, calVars, genVars, ensemble, n_cand,
                   pos, scanned, t_stag, indices>>
    /\ UNCHANGED stageVars

IdentNext ==
    \/ IdentScan
    \/ IdentRaises
    \/ IdentCollect
    \/ IdentPick
    \/ IdentReturn

SpecIdent == IdentInit /\ [][IdentNext]_vars

\* the rows of df identification selected from, and the volume of a
\* returned candidate, looked up by its suffix and time
RestrictedRows == DfRows(ensemble, t_stag, StableYears)

CandidateVolume(c) ==
    LET j == CHOOSE j \in 1 .. Len(ensemble) :
                /\ ensemble[j].seed = c.suffix.seed
                /\ ensemble[j].temp_bias = c.suffix.temp_bias
    IN  VolumeOf[ensemble[j].shape][c.time]

IsRestrictedState(c) ==
    \E r \in RestrictedRows :
        /\ c.time = r[2]
        /\ c.suffix.seed = ensemble[r[1]].seed
        /\ c.suffix.temp_bias = ensemble[r[1]].temp_bias

\* C10 as stated: for n = 1 identification returns exactly one candidate,
\* the state at or after t_stag whose volume is closest to the midpoint
\* between the minimum and the maximum volume of the restricted ensemble.
C10_Original ==
    (pc = "ident_done" /\ n_cand = 1) =>
        /\ Len(candidates) = 1
        /\ IsRestrictedState(candidates[1])
        /\ LET lo == DfMin(ensemble, RestrictedRows)
               hi == DfMax(ensemble, RestrictedRows)
           IN  \A r \in RestrictedRows :
                   Abs(2 * CandidateVolume(candidates[1]) - (lo + hi))
                       <= Abs(2 * RowVolume(ensemble, r) - (lo + hi))

\* C10 amended: for n = 1 identification, when it returns, returns exactly
\* one candidate, a state at or after t_stag of a member whose file parses,
\* and its volume is the minimum volume of the restricted ensemble
\* (np.linspace(min, max, 1) is [min], not the midpoint).
C10_SingleCandidateHasMinVolume ==
    (pc = "ident_done" /\ n_cand = 1) =>
        /\ Len(candidates) = 1
        /\ IsRestrictedState(candidates[1])
        /\ CandidateVolume(candidates[1]) = DfMin(ensemble, RestrictedRows)

\* C10: one candidate was returned for n = 1 from a restricted ensemble
\* (t_stag > 0) of two parsed members whose volumes differ, so that the
\* minimum and the midpoint are different targets
C10_Witness ==
    /\ pc = "ident_done"
    /\ n_cand = 1
    /\ Len(candidates) = 1
    /\ t_stag > 0
    /\ \A j \in 1 .. Len(ensemble) : ensemble[j].readable
    /\ DfMin(ensemble, RestrictedRows) < DfMax(ensemble, RestrictedRows)

\* C11: the t_stag that restricts the ensemble (from the collection of df
\* on) is never greater than years_to_stable - 50, whatever the first local
\* maxima of the scanned members are.
C11_TStagLeavesEndMargin ==
    pc \in {"ident_pick", "ident_done"} => t_stag <= diag - EndMargin

\* C11: a scanned member peaks within the last 50 years and t_stag was cut
\* back to years_to_stable - 50
C11_Witness ==
    /\ pc = "ident_pick"
    /\ t_stag = diag - EndMargin
    /\ \E j \in 1 .. Len(ensemble) :
            /\ ensemble[j].readable
            /\ ExtremumOf[ensemble[j].shape] > diag - EndMargin

\* C12: identification returns at most n candidates, their (time, suffix)
\* pairs are pairwise distinct, and every candidate has time >= t_stag.
C12_AtMostNDistinctAfterTStag ==
    pc = "ident_done" =>
        /\ Len(candidates) <= n_cand
        /\ \A a \in 1 .. Len(candidates) : \A b \in 1 .. Len(candidates) :
                a # b => candidates[a] # candidates[b]
        /\ \A a \in 1 .. Len(candidates) : candidates[a].time >= t_stag

\* C12: several candidates were asked for and returned, from an ensemble
\* with a member whose largest volume lies before t_stag
C12_Witness ==
    /\ pc = "ident_done"
    /\ n_cand > 1
    /\ Len(candidates) = n_cand
    /\ t_stag > 0
    /\ \E j \in 1 .. Len(ensemble) : \E t \in 0 .. t_stag - 1 :
            /\ ensemble[j].readable
            /\ VolumeOf[ensemble[j].shape][t] > DfMax(ensemble, RestrictedRows)

(***************************************************************************)
(* Fitness: fitness_value and fitness_value_fls.  A model state is its     *)
(* list of flowlines, a flowline the surface elevation and the width at    *)
(* each of its nx grid points.  The value returned is kept as the fraction *)
(* num / den.                                                              *)
(***************************************************************************)
\* flowlines of a model
MaxFls == 2

\* grid points of a flowline
MaxNx == 2

\* fitness = fitness/125
Norm == 125

Heights == {0, 3}
Widths == {1}
Shifts == {-1, 0, 1}

Points == [surface_h : Heights, widths : Widths]
Flowlines == UNION {[1 .. nx -> Points] : nx \in 1 .. MaxNx}
Models == UNION {[1 .. m -> Flowlines] : m \in 1 .. MaxFls}

\* the second state: the first one with the elevations and the widths
\* shifted at every point, at the first point of every flowline, or on the
\* last flowline
Shifted(m, dh, dw, where) ==
    [j \in 1 .. Len(m) |->
        [k \in 1 .. Len(m[j]) |->
            IF \/ where = "all"
               \/ (where = "first point" /\ k = 1)
               \/ (where = "last flowline" /\ j = Len(m))
            THEN [surface_h |-> m[j][k].surface_h + dh,
                  widths |-> m[j][k].widths + dw]
            ELSE m[j][k]]]

\* abs(a - b) ** 2
SignedDiff(a, b) == a - b
SquaredDiff(a, b) == Abs(a - b) * Abs(a - b)

\* np.sum(abs(fls1[i].surface_h - fls2[i].surface_h) ** 2) +
\* np.sum(abs(fls1[i].widths - fls2[i].widths) ** 2)
RECURSIVE FlowlineMisfit(_, _, _)
FlowlineMisfit(f1, f2, k) ==
    IF k > Len(f1) THEN 0
    ELSE SquaredDiff(f1[k].surface_h, f2[k].surface_h)
         + SquaredDiff(f1[k].widths, f2[k].widths)
         + FlowlineMisfit(f1, f2, k + 1)

\* the loop over range(len(model1.fls)): <<fitness, m>>
RECURSIVE MisfitAndPoints(_, _, _)
MisfitAndPoints(m1, m2, j) ==
    IF j > Len(m1) THEN <<0, 0>>
    ELSE LET rest == MisfitAndPoints(m1, m2, j + 1)
         IN  <<FlowlineMisfit(m1[j], m2[j], 1) + rest[1], Len(m1[j]) + rest[2]>>

\* fitness / m / 125
FitnessOf(m1, m2) ==
    LET t == MisfitAndPoints(m1, m2, 1)
    IN  [num |-> t[1], den |-> t[2] * Norm]

FitInit ==
    /\ pc = "fit_start"
    /\ ProberIdle
    /\ diag = Absent
    /\ CalIdle
    /\ GenIdle
    /\ IdentIdle
    /\ fls1 \in Models
    /\ \E dh \in Shifts, dw \in Shifts,
          where \in {"all", "first point", "last flowline"} :
            fls2 = Shifted(fls1, dh, dw, where)
    /\ fitness = [num |-> 0, den |-> 0]
    /\ ExpIdle
    /\ BatchIdle
    /\ FindIdle
    /\ FanIdle

\* fitness_value(model1, model2, ye)
FitnessValue ==
    /\ pc = "fit_start"
    /\ fitness' = FitnessOf(fls1, fls2)
    /\ pc' = "fit_done"
    /\ UNCHANGED <<pipelineVars, fanVars, fls1, fls2, expVars, batchVars, findVars>>

\* fitness_value_fls(model1, model2, ye)
FitnessValueFls ==
    /\ pc = "fit_start"
    /\ fitness' = FitnessOf(fls1, fls2)
    /\ pc' = "fit_fls_done"
    /\ UNCHANGED <<pipelineVars, fanVars, fls1, fls2, expVars, batchVars, findVars>>

FitNext ==
    \/ FitnessValue
    \/ FitnessValueFls

SpecFit == FitInit /\ [][FitNext]_vars

\* C15: the fitness of two states is non-negative, and it is exactly 0 when
\* the surface elevations and the widths of the two states agree at every
\* grid point of every flowline.
C15_FitnessNonNegativeZeroWhenEqual ==
    pc \in {"fit_done", "fit_fls_done"} =>
        /\ fitness.den > 0
        /\ fitness.num >= 0
        /\ fls1 = fls2 => fitness.num = 0

\* C15: two identical states of several flowlines with several grid points
\* were compared
C15_Witness ==
    /\ pc \in {"fit_done", "fit_fls_done"}
    /\ fls1 = fls2
    /\ Len(fls1) > 1
    /\ \E j \in 1 .. Len(fls1) : Len(fls1[j]) > 1
    /\ fitness.num = 0

(***************************************************************************)
(* SyntheticExperiments: synthetic_experiments_parallel and                *)
(* _run_parallel_experiment.  The experiment file of a glacier is absent   *)
(* ("none"), left by an earlier batch ("old"), written anew ("created") or *)
(* written over an old one ("overwritten").                                *)
(***************************************************************************)
\* glaciers of the batch, gdirs[0] is glacier 1
NumGlaciers == 3

Glaciers == 1 .. NumGlaciers

\* line 688: os.path.isfile(gdirs[0].get_filepath(...))
FirstHasExperiment(files) == files[1] = "old"

\* lines 147-164: the experiment of one glacier; a failure is printed and the
\* file on disk stays as it is
FileAfterExperiment(file, fails) ==
    IF fails THEN file
    ELSE IF file = "none" THEN "created" ELSE "overwritten"

ExpInit ==
    /\ pc = "exp_start"
    /\ ProberIdle
    /\ diag = Absent
    /\ CalIdle
    /\ GenIdle
    /\ IdentIdle
    /\ FitIdle
    /\ expFile \in [Glaciers -> {"none", "old"}]
    /\ expFails \in [Glaciers -> BOOLEAN]
    /\ answer = "not asked"
    /\ expDone = {}
    /\ BatchIdle
    /\ FindIdle
    /\ FanIdle

\* lines 687-692: the file of gdirs[0] exists and the operator is asked
ExpQuery ==
    /\ pc = "exp_start"
    /\ FirstHasExperiment(expFile)
    /\ answer' \in {"yes", "no"}
    /\ pc' = "exp_asked"
    /\ UNCHANGED <<pipelineVars, fanVars, fitVars, expFile, expFails, expDone,
                   batchVars, findVars>>

\* lines 687-688: the file of gdirs[0] does not exist, reset stays True
ExpNoQuery ==
    /\ pc = "exp_start"
    /\ ~FirstHasExperiment(expFile)
    /\ pc' = "exp_run"
    /\ UNCHANGED <<pipelineVars, fanVars, fitVars, expVars, batchVars, findVars>>

\* lines 693-694: the operator declined
ExpDeclined ==
    /\ pc = "exp_asked"
    /\ answer = "no"
    /\ pc' = "exp_returned"
    /\ UNCHANGED <<pipelineVars, fanVars, fitVars, expVars, batchVars, findVars>>

\* line 693: the operator confirmed
ExpConfirmed ==
    /\ pc = "exp_asked"
    /\ answer = "yes"
    /\ pc' = "exp_run"
    /\ UNCHANGED <<pipelineVars, fanVars, fitVars, expVars, batchVars, findVars>>

\* line 697: the pool runs _run_parallel_experiment on one more glacier
ExpRunOne ==
    /\ pc = "exp_run"
    /\ \E g \in Glaciers \ expDone :
        /\ expFile' = [expFile EXCEPT
                            ![g] = FileAfterExperiment(expFile[g], expFails[g])]
        /\ expDone' = expDone \cup {g}
    /\ UNCHANGED <<pc, pipelineVars, fanVars, fitVars, expFails, answer, batchVars,
                   findVars>>

\* lines 698-699
ExpJoin ==
    /\ pc = "exp_run"
    /\ expDone = Glaciers
    /\ pc' = "exp_done"
    /\ UNCHANGED <<pipelineVars, fanVars, fitVars, expVars, batchVars, findVars>>

ExpNext ==
    \/ ExpQuery
    \/ ExpNoQuery
    \/ ExpDeclined
    \/ ExpConfirmed
    \/ ExpRunOne
    \/ ExpJoin

SpecExp == ExpInit /\ [][ExpNext]_vars

\* C20: synthetic_experiments_parallel overwrites the existing experiment
\* file of a glacier of the batch only when the operator has confirmed, and
\* when the operator declines no glacier's experiment is run.
C20_OverwriteOnlyWhenConfirmed ==
    /\ \A g \in Glaciers : expFile[g] = "overwritten" => answer = "yes"
    /\ answer = "no" => expDone = {}

(***************************************************************************)
(* Batches: Pool.map as time_to_stable, calibration_runs,                  *)
(* _run_random_parallel and evaluation use it.  The pool cuts the items    *)
(* into chunks of consecutive items; a process works a chunk item by item  *)
(* and gives the chunk up at the first worker call that raises; map        *)
(* returns the list of results, or raises the first exception once every   *)
(* chunk has ended.                                                        *)
(***************************************************************************)
\* items of the batch (glaciers, ensemble members or candidates)
NumItems == 5

Items == 1 .. NumItems

BatchKinds ==
    {"time_to_stable", "calibration_runs", "_run_random_parallel", "evaluation"}

\* what happens inside the worker of an item: nothing goes wrong, the flow
\* model raises (the glacier exceeds the domain), or years_to_stable is
\* read and is absent
Fates == {"ok", "run raises", "no years_to_stable"}

\* the exception leaves the worker function: _single_time_to_stable has no
\* try around its runs, _run_random_task reads years_to_stable outside its
\* try; find_mb_offset and _run_to_present catch everything
WorkerRaises(kind, f) ==
    \/ (kind = "time_to_stable" /\ f = "run raises")
    \/ (kind = "_run_random_parallel" /\ f = "no years_to_stable")

\* Pool.map: chunksize, extra = divmod(len(iterable), len(pool) * 4), plus
\* one when extra is not 0
ChunkSize(n, p) ==
    IF n % (4 * p) = 0 THEN n \div (4 * p) ELSE n \div (4 * p) + 1

NumChunks(n, p) ==
    IF n % ChunkSize(n, p) = 0 THEN n \div ChunkSize(n, p)
    ELSE n \div ChunkSize(n, p) + 1

\* the item at position k of chunk c, and the items of chunk c
ItemAt(c, k) == (c - 1) * ChunkSize(NumItems, procs) + k
ChunkLen(c) ==
    IF c * ChunkSize(NumItems, procs) <= NumItems
    THEN ChunkSize(NumItems, procs)
    ELSE NumItems - (c - 1) * ChunkSize(NumItems, procs)

ChunkEnded(c) == chunkNext[c].raised \/ chunkNext[c].next > ChunkLen(c)

\* the items whose worker was called
Processed ==
    {it \in Items : \E c \in 1 .. Len(chunkNext) :
        \E k \in 1 .. ChunkLen(c) :
            it = ItemAt(c, k) /\ k < chunkNext[c].next}

BatchInit ==
    /\ pc = "batch_map"
    /\ ProberIdle
    /\ diag = Absent
    /\ CalIdle
    /\ GenIdle
    /\ IdentIdle
    /\ FitIdle
    /\ ExpIdle
    /\ batchKind \in BatchKinds
    /\ procs \in {1, 2}
    /\ fate \in [Items -> Fates]
    /\ chunkNext = [c \in 1 .. NumChunks(NumItems, procs) |->
                        [next |-> 1, raised |-> FALSE]]
    /\ batchOut = "pending"
    /\ FindIdle
    /\ FanIdle

\* a process calls the worker on the next item of its chunk
BatchWork ==
    /\ pc = "batch_map"
    /\ \E c \in 1 .. Len(chunkNext) :
        /\ ~ChunkEnded(c)
        /\ chunkNext' = [chunkNext EXCEPT ![c] =
                [next |-> @.next + 1,
                 raised |-> WorkerRaises(batchKind,
                                         fate[ItemAt(c, chunkNext[c].next)])]]
    /\ UNCHANGED <<pc, pipelineVars, fanVars, fitVars, expVars, batchKind, procs, fate,
                   batchOut, findVars>>

\* pool.map returns the results of all items
BatchReturn ==
    /\ pc = "batch_map"
    /\ \A c \in 1 .. Len(chunkNext) : ChunkEnded(c)
    /\ \A c \in 1 .. Len(chunkNext) : ~chunkNext[c].raised
    /\ batchOut' = "results"
    /\ pc' = "batch_done"
    /\ UNCHANGED <<pipelineVars, fanVars, fitVars, expVars, batchKind, procs, fate,
                   chunkNext, findVars>>

\* pool.map raises the exception of a worker in the coordinator: no result
\* of any item is returned, and nothing in time_to_stable or
\* _run_random_parallel catches it
BatchRaise ==
    /\ pc = "batch_map"
    /\ \A c \in 1 .. Len(chunkNext) : ChunkEnded(c)
    /\ \E c \in 1 .. Len(chunkNext) : chunkNext[c].raised
    /\ batchOut' = "raised"
    /\ pc' = "batch_done"
    /\ UNCHANGED <<pipelineVars, fanVars, fitVars, expVars, batchKind, procs, fate,
                   chunkNext, findVars>>

BatchNext ==
    \/ BatchWork
    \/ BatchReturn
    \/ BatchRaise

SpecBatch == BatchInit /\ [][BatchNext]_vars

\* C17: in every parallel batch a failure in the processing of one item
\* never aborts the batch: every item is processed and the results are
\* returned to the coordinator.
C17_FailureNeverAbortsBatch ==
    pc = "batch_done" => (batchOut = "results" /\ Processed = Items)

(***************************************************************************)
(* Search of one glacier: find_possible_glaciers, evaluation and           *)
(* _run_to_present, called twice for the same glacier and year, the second *)
(* time with the same n or with another one.  generation and               *)
(* identification are taken as one step that leaves one random-run file    *)
(* per member (plus members whose run fails and leaves no file) and hands  *)
(* the first n of them, as candidates, to evaluation.  A model file is     *)
(* [file, stage, id]: file is "geometry" or "diagnostics", stage "random"  *)
(* (the output of a random run) or "past" (the output of a run to the      *)
(* observation year), id the candidate.  Fitness values are in tenths.     *)
(***************************************************************************)
\* candidates identification returns
NumCands == 3

\* results.fitness <= 1, in tenths
FitOne == 10

\* None (or NaN) in a column of the result table
NoValue == -1

\* None in suffix_list
NoSuffix == 0

\* what the flow model makes of a candidate: the run to the observation year
\* succeeds or raises; the objective of its output can be computed or
\* raises inside the try of evaluation; its fitness values and its length
CandProfiles ==
    { [run |-> "ok", parses |-> TRUE, fitness |-> 0, fitness_fls |-> 0,
       length |-> 50],
      [run |-> "ok", parses |-> TRUE, fitness |-> 10, fitness_fls |-> 30,
       length |-> 30],
      [run |-> "ok", parses |-> TRUE, fitness |-> 70, fitness_fls |-> 4,
       length |-> 80],
      [run |-> "ok", parses |-> FALSE, fitness |-> 0, fitness_fls |-> 0,
       length |-> 0],
      [run |-> "raises", parses |-> FALSE, fitness |-> 0, fitness_fls |-> 0,
       length |-> 0] }

ModelFiles(stage, id) ==
    {[file |-> "geometry", stage |-> stage, id |-> id],
     [file |-> "diagnostics", stage |-> stage, id |-> id]}

\* the values of argument n the calls are made with
CallNs == {NumCands - 1, NumCands}

\* the rows of cand_df in the running call
CandsOfCall == 1 .. n_args[call]

\* line 389: os.path.isfile(path)
CacheMiss(pkl) == FALSE
CacheHit(pkl) == pkl # NoTable

\* lines 601-604: evaluation pickles df only when delete is not set
PicklesTable(del) == ~del

\* _run_random_task, line 290: the member is run unless its file is in
\* gdir.dir/<y0>
MemberIsRun(sub, id) == [file |-> "geometry", stage |-> "random", id |-> id] \notin sub

\* _run_to_present, line 178: the candidate is run unless its output is in
\* gdir.dir/<y0>
CandidateIsRun(sub, id) == [file |-> "geometry", stage |-> "past", id |-> id] \notin sub

\* _run_to_present: the output suffix, or None when the run raises
RunToPresent(sub, c, id) ==
    IF CandidateIsRun(sub, id) /\ c.run = "raises" THEN NoSuffix ELSE id

\* lines 583-591 and 596-598: the row evaluation appends for a candidate
\* whose suffix is not None
ResultRow(del, c, id) ==
    IF c.parses
    THEN [model |-> id, fitness |-> c.fitness, fitness_fls |-> c.fitness_fls,
          length |-> IF del THEN c.length + id ELSE NoValue]
    ELSE [model |-> NoValue, fitness |-> NoValue, fitness_fls |-> NoValue,
          length |-> NoValue]

\* the rows whose value in a column is not None/NaN
Valid(rows, field) == {j \in 1 .. Len(rows) : rows[j][field] # NoValue}

\* idxmin / idxmax of a column over some rows: the first row with the
\* smallest / largest value
IdxMinBy(rows, idxs, field) ==
    LET m == SetMin({rows[j][field] : j \in idxs})
    IN  SetMin({j \in idxs : rows[j][field] = m})

IdxMaxBy(rows, idxs, field) ==
    LET m == SetMax({rows[j][field] : j \in idxs})
    IN  SetMin({j \in idxs : rows[j][field] = m})

\* results[results.fitness <= 1]: a comparison with None is False
Acceptable(rows, field) ==
    {j \in Valid(rows, field) : rows[j][field] <= FitOne}

\* x[x.f <= x.f.quantile(0.05)]: with n <= 21 rows the quantile lies between
\* the smallest value s0 and the next one s1, at s0 + 0.05*(n-1)*(s1-s0)
Quantile05Subset(rows, idxs, field) ==
    LET n == Cardinality(idxs)
        s0 == SetMin({rows[j][field] : j \in idxs})
        above == {j \in idxs : rows[j][field] # s0}
        s1 == IF above = {} \/ Cardinality(idxs \ above) > 1 THEN s0
              ELSE SetMin({rows[j][field] : j \in above})
    IN  {j \in idxs : 20 * rows[j][field] <= 20 * s0 + (n - 1) * (s1 - s0)}

\* x.sort_values(by='length'), as the sequence of row labels
SortedByLength(rows, idxs) ==
    [r \in 1 .. Cardinality(idxs) |->
        CHOOSE j \in idxs :
            Cardinality({k \in idxs : rows[k].length < rows[j].length}) = r - 1]

\* lines 435-439: the position taken by iloc, counted from 1
MedianPos(l) == IF l % 2 = 1 THEN (l - 1) \div 2 + 1 ELSE l \div 2 + 1

\* results_exp as it stands at line 458: the 5th-percentile subset sorted by
\* length, or the empty frame of line 422 when nothing is acceptable
ResultsExpAtMedian(rows) ==
    IF Acceptable(rows, "fitness") = {} THEN <<>>
    ELSE SortedByLength(rows,
            Quantile05Subset(rows, Acceptable(rows, "fitness"), "fitness"))

ResultsFlsAtMedian(rows) ==
    IF Acceptable(rows, "fitness_fls") = {} THEN <<>>
    ELSE SortedByLength(rows,
            Quantile05Subset(rows, Acceptable(rows, "fitness_fls"),
                             "fitness_fls"))

\* lines 418-458 raise: idxmin of a column without a value, or iloc past
\* the end of results_exp at line 458
PruneRaises(rows) ==
    \/ Valid(rows, "fitness") = {}
    \/ Valid(rows, "fitness_fls") = {}
    \/ /\ Acceptable(rows, "fitness_fls") # {}
       /\ MedianPos(Len(ResultsFlsAtMedian(rows)))
            > Len(ResultsExpAtMedian(rows))

\* a None row makes the fitness columns of results object columns; pandas
\* may refuse their quantile
HasNoneRow(rows) == \E j \in 1 .. Len(rows) : rows[j].model = NoValue

SaveKeys(rows) ==
    {"minimum_exp", "minimum_fls"}
    \cup (IF Acceptable(rows, "fitness") = {} THEN {}
          ELSE {"acc_min_exp", "acc_max_exp", "perc_min_exp", "perc_max_exp",
                "median_exp"})
    \cup (IF Acceptable(rows, "fitness_fls") = {} THEN {}
          ELSE {"acc_min_fls", "acc_max_fls", "perc_min_fls", "perc_max_fls",
                "median_fls"})

\* lines 415-458: the dict save, each selection as the candidate whose file
\* it names
SaveOf(rows) ==
    LET accE == Acceptable(rows, "fitness")
        accF == Acceptable(rows, "fitness_fls")
        percE == Quantile05Subset(rows, accE, "fitness")
        percF == Quantile05Subset(rows, accF, "fitness_fls")
        sortE == ResultsExpAtMedian(rows)
        sortF == ResultsFlsAtMedian(rows)
        row(key) ==
            CASE key = "minimum_exp" ->
                    IdxMinBy(rows, Valid(rows, "fitness"), "fitness")
              [] key = "minimum_fls" ->
                    IdxMinBy(rows, Valid(rows, "fitness_fls"), "fitness_fls")
              [] key = "acc_min_exp" -> IdxMinBy(rows, accE, "length")
              [] key = "acc_max_exp" -> IdxMaxBy(rows, accE, "length")
              [] key = "perc_min_exp" -> IdxMinBy(rows, percE, "length")
              [] key = "perc_max_exp" -> IdxMaxBy(rows, percE, "length")
              [] key = "median_exp" -> sortE[MedianPos(Len(sortE))]
              [] key = "acc_min_fls" -> IdxMinBy(rows, accF, "length")
              [] key = "acc_max_fls" -> IdxMaxBy(rows, accF, "length")
              [] key = "perc_min_fls" -> IdxMinBy(rows, percF, "length")
              [] key = "perc_max_fls" -> IdxMaxBy(rows, percF, "length")
              [] key = "median_fls" -> sortE[MedianPos(Len(sortF))]
    IN  [key \in SaveKeys(rows) |-> rows[row(key)].model]

\* lines 465-478: a model_geometry<y0>* file that save does not name is
\* removed together with its diagnostics file
KeptByPruning(files, sv) ==
    {f \in files : f.stage = "past" /\ \E key \in DOMAIN sv : sv[key] = f.id}

FindInit ==
    /\ pc = "find_start"
    /\ ProberIdle
    /\ diag = StableYears
    /\ CalIdle
    /\ GenIdle
    /\ IdentIdle
    /\ FitIdle
    /\ ExpIdle
    /\ BatchIdle
    /\ FanIdle
    /\ delete \in BOOLEAN
    /\ failedRuns \in {0, 1}
    /\ cands \in [1 .. NumCands -> CandProfiles]
    /\ call = 1
    /\ dirFiles = {}
    /\ subFiles = {}
    /\ resultPkl = NoTable
    /\ suffix_list = <<>>
    /\ results = <<>>
    /\ save = <<>>
    /\ simRuns = 0
    /\ returned = <<>>
    /\ n_args \in [1 .. 2 -> CallNs]

\* lines 389-391: the pickled table is on disk and is returned
FindCached ==
    /\ pc = "find_start"
    /\ CacheHit(resultPkl)
    /\ returned' = Append(returned, resultPkl)
    /\ pc' = "find_returned"
    /\ UNCHANGED <<pipelineVars, fanVars, fitVars, expVars, batchVars, delete, n_args,
                   failedRuns, cands, call, dirFiles, subFiles, resultPkl,
                   suffix_list, results, save, simRuns>>

\* lines 395-402: generation runs every member whose file is not in
\* gdir.dir/<y0> (a failing member leaves no file and is run by every call);
\* identification picks the candidates
FindSearch ==
    /\ pc = "find_start"
    /\ ~CacheHit(resultPkl)
    /\ LET run == {k \in 1 .. NumCands : MemberIsRun(subFiles, k)}
       IN  /\ dirFiles' = dirFiles \cup
                    UNION {ModelFiles("random", k) : k \in run}
           /\ simRuns' = simRuns + failedRuns + Cardinality(run)
    /\ pc' = "find_run"
    /\ UNCHANGED <<pipelineVars, fanVars, fitVars, expVars, batchVars, delete, n_args,
                   failedRuns, cands, call, subFiles, resultPkl, suffix_list,
                   results, save, returned>>

\* lines 548-552: the pool runs _run_to_present on every candidate
FindRunToPresent ==
    /\ pc = "find_run"
    /\ LET run == {k \in CandsOfCall : CandidateIsRun(subFiles, k)}
       IN  /\ suffix_list' = [k \in CandsOfCall |->
                                RunToPresent(subFiles, cands[k], k)]
           /\ dirFiles' = dirFiles \cup
                    UNION {ModelFiles("past", k) :
                            k \in {k \in run : cands[k].run = "ok"}}
           /\ simRuns' = simRuns + Cardinality(run)
    /\ pc' = "find_eval"
    /\ UNCHANGED <<pipelineVars, fanVars, fitVars, expVars, batchVars, delete, n_args,
                   failedRuns, cands, call, subFiles, resultPkl, results, save,
                   returned>>

\* lines 569-598, one pass of the loop with a suffix that is not None: the
\* row of the candidate, or the row of None values when the try raises
FindEvalRow ==
    /\ pc = "find_eval"
    /\ Len(results) < Len(suffix_list)
    /\ suffix_list[Len(results) + 1] # NoSuffix
    /\ results' = Append(results,
                    ResultRow(delete, cands[Len(results) + 1], Len(results) + 1))
    /\ UNCHANGED <<pc, pipelineVars, fanVars, fitVars, expVars, batchVars, delete, n_args,
                   failedRuns, cands, call, dirFiles, subFiles, resultPkl,
                   suffix_list, save, simRuns, returned>>

\* lines 569-598, one pass of the loop with f = None: 'model_geometry' + f
\* raises inside the try, f.split('_') raises inside the except, and the
\* exception leaves evaluation and find_possible_glaciers
FindEvalRaises ==
    /\ pc = "find_eval"
    /\ Len(results) < Len(suffix_list)
    /\ suffix_list[Len(results) + 1] = NoSuffix
    /\ pc' = "find_raised"
    /\ UNCHANGED <<pipelineVars, stageVars>>

\* lines 601-606 and 479-493, delete not set: the table is pickled, the
\* files of year y0 are moved to gdir.dir/<y0>, the table is returned
FindSaveTable ==
    /\ pc = "find_eval"
    /\ Len(results) = Len(suffix_list)
    /\ ~delete
    /\ resultPkl' = IF PicklesTable(delete) THEN results ELSE resultPkl
    /\ subFiles' = subFiles \cup dirFiles
    /\ dirFiles' = {}
    /\ returned' = Append(returned, results)
    /\ pc' = "find_returned"
    /\ UNCHANGED <<pipelineVars, fanVars, fitVars, expVars, batchVars, delete, n_args,
                   failedRuns, cands, call, suffix_list, results, save,
                   simRuns>>

\* lines 601-606 and 413-478, delete set: the selections are saved, every
\* other file of year y0 is removed, the table is returned
FindPrune ==
    /\ pc = "find_eval"
    /\ Len(results) = Len(suffix_list)
    /\ delete
    /\ ~PruneRaises(results)
    /\ resultPkl' = IF PicklesTable(delete) THEN results ELSE resultPkl
    /\ save' = SaveOf(results)
    /\ dirFiles' = KeptByPruning(dirFiles, SaveOf(results))
    /\ returned' = Append(returned, results)
    /\ pc' = "find_returned"
    /\ UNCHANGED <<pipelineVars, fanVars, fitVars, expVars, batchVars, delete, n_args,
                   failedRuns, cands, call, subFiles, suffix_list, results,
                   simRuns>>

\* lines 418-458 raise before anything is saved or removed
FindPruneRaises ==
    /\ pc = "find_eval"
    /\ Len(results) = Len(suffix_list)
    /\ delete
    /\ PruneRaises(results) \/ HasNoneRow(results)
    /\ pc' = "find_raised"
    /\ UNCHANGED <<pipelineVars, stageVars>>

\* the caller calls find_possible_glaciers again
FindAgain ==
    /\ pc \in {"find_returned", "find_raised"}
    /\ call = 1
    /\ call' = 2
    /\ suffix_list' = <<>>
    /\ results' = <<>>
    /\ save' = <<>>
    /\ simRuns' = 0
    /\ pc' = "find_start"
    /\ UNCHANGED <<pipelineVars, fanVars, fitVars, expVars, batchVars, delete, n_args,
                   failedRuns, cands, dirFiles, subFiles, resultPkl, returned>>

FindNext ==
    \/ FindCached
    \/ FindSearch
    \/ FindRunToPresent
    \/ FindEvalRow
    \/ FindEvalRaises
    \/ FindSaveTable
    \/ FindPrune
    \/ FindPruneRaises
    \/ FindAgain

SpecFind == FindInit /\ [][FindNext]_vars

\* both calls returned a table
BothReturned == call = 2 /\ pc = "find_returned" /\ Len(returned) = 2

\* the two calls had the same arguments
SameArguments == n_args[1] = n_args[2]

\* C13 (as stated): in either pruning mode the second of two calls with the
\* same arguments returns the table of the first call and starts no forward
\* simulation.
C13_Original ==
    (SameArguments /\ BothReturned) =>
        (returned[2] = returned[1] /\ simRuns = 0)

\* C13 (amended): with delete=False the second of two calls with the same
\* arguments returns the table of the first call and starts no forward
\* simulation, and leaves the files where they are (with delete=True no
\* table is pickled and the second call searches again).
C13_CachedWhenNotPruning ==
    (SameArguments /\ ~delete /\ BothReturned) =>
        /\ returned[2] = returned[1]
        /\ simRuns = 0
        /\ results = <<>>
        /\ dirFiles = {}

\* C13: the second call of a search without pruning returned, for an
\* ensemble with a member whose run fails (no file to find on disk)
C13_Witness ==
    /\ SameArguments
    /\ ~delete
    /\ BothReturned
    /\ failedRuns > 0
    /\ Len(returned[1]) = NumCands
    /\ \E j \in 1 .. NumCands : returned[1][j].model # NoValue

\* C14: a candidate whose worker result is None gets one row with
\* model=None and fitness=None, the remaining candidates are still
\* evaluated, and no selection names that candidate.
C14_FailedCandidateIsRecorded ==
    (pc \in {"find_returned", "find_raised"} /\ suffix_list # <<>>) =>
        \A k \in 1 .. Len(suffix_list) :
            suffix_list[k] = NoSuffix =>
                /\ Len(results) = Len(suffix_list)
                /\ results[k].model = NoValue
                /\ results[k].fitness = NoValue
                /\ \A key \in DOMAIN save : save[key] # k

\* C16: after a call in pruning mode the only model files of year y0 left
\* in the glacier directory are the ones the recorded selections name (with
\* their diagnostics files).
C16_PruningLeavesOnlySelections ==
    (delete /\ pc \in {"find_returned", "find_raised"}) =>
        \A f \in dirFiles :
            f.stage = "past" /\ \E key \in DOMAIN save : save[key] = f.id

\* the members the t_stag loop can count: the file parses and the smoothed
\* series has a local maximum
Countable == {ensemble[j] : j \in {j \in 1 .. Len(ensemble) :
                /\ ensemble[j].readable
                /\ ExtremumOf[ensemble[j].shape] # NoExtremum}}

Parsed == {ensemble[j] : j \in {j \in 1 .. Len(ensemble) :
                ensemble[j].readable}}

\* the round of generation that produced a member, and the order in which
\* the generator produced two members: the base round first, then the
\* lower, then the upper round, each by ascending bias
RoundOf(m) ==
    IF m.temp_bias < BaseBiases[1] THEN 2
    ELSE IF m.temp_bias > BaseBiases[Len(BaseBiases)] THEN 3 ELSE 1

ProducedBefore(a, b) ==
    \/ RoundOf(a) < RoundOf(b)
    \/ (RoundOf(a) = RoundOf(b) /\ a.temp_bias < b.temp_bias)

FirstProduced ==
    {m \in Parsed :
        Cardinality({x \in Parsed : ProducedBefore(x, m)}) < MaxScanned}

LowestBiases ==
    {m \in Countable :
        Cardinality({x \in Countable : x.temp_bias < m.temp_bias})
            < MaxScanned}

\* the largest first local maximum among some members, 0 when there is none
LatestExtremum(S) ==
    SetMax({0} \cup {ExtremumOf[m.shape] : m \in S})

ScanEnded == pc = "ident_scan" /\ pos = Len(ensemble)

\* C22 (as stated): at the end of the t_stag loop, t_stag is the latest
\* first local maximum among the first (up to) 10 members whose file
\* parses, taken in the order in which the generator produced them (base
\* round first, then the extension rounds).
C22_Original ==
    ScanEnded => t_stag = LatestExtremum(FirstProduced)

\* C22 (amended): at the end of the t_stag loop, the members counted are
\* the (up to) 10 members of lowest temperature bias (the order of the
\* sorted table generation returns) among those whose file parses and whose
\* smoothed series has a local maximum, and t_stag is the latest of their
\* first local maxima.
C22_FirstTenByAscendingBias ==
    ScanEnded =>
        /\ scanned = Cardinality(LowestBiases)
        /\ t_stag = LatestExtremum(LowestBiases)

\* C22: the loop ended on a table of more than 10 parsed members that holds
\* rows of the lower round, where the first 10 in generation order and the
\* 10 of lowest bias give a different t_stag
C22_Witness ==
    /\ ScanEnded
    /\ Cardinality(Countable) > MaxScanned
    /\ \E m \in Countable : RoundOf(m) = 2
    /\ Parsed = Countable
    /\ LatestExtremum(FirstProduced) # LatestExtremum(LowestBiases)

\* the second call took its table from disk: it returned without handing a
\* candidate to evaluation
SecondFromDisk == call = 2 /\ pc = "find_returned" /\ suffix_list = <<>>

\* C23: find_possible_glaciers returns a result table from disk only when
\* that table was computed for the same number of candidates n as the
\* current call.
C23_CachedOnlyForSameN ==
    SecondFromDisk => n_args[2] = n_args[1]

\* the 5th-percentile subset of the candidates acceptable by the
\* reference-flowline fitness, as rows of results
PercentileFls ==
    Quantile05Subset(results, Acceptable(results, "fitness_fls"),
                     "fitness_fls")

\* a call in pruning mode evaluated every candidate, every row has a model,
\* and some candidate is acceptable by the reference-flowline fitness
PruningWithFlsSubset ==
    /\ delete
    /\ pc \in {"find_returned", "find_raised"}
    /\ suffix_list # <<>>
    /\ Len(results) = Len(suffix_list)
    /\ ~HasNoneRow(results)
    /\ Acceptable(results, "fitness_fls") # {}

\* C24: in pruning mode, when the 5th-percentile subset by the
\* reference-flowline fitness is not empty, the selection raises nothing and
\* median_fls names a member of that subset.
C24_MedianFlsFromFlsSubset ==
    PruningWithFlsSubset =>
        /\ pc = "find_returned"
        /\ "median_fls" \in DOMAIN save
        /\ \E j \in PercentileFls : results[j].model = save["median_fls"]

(***************************************************************************)
(* Output files of the workers of one pool.map: _run_random_task in the    *)
(* rounds of generation, _run_to_present in evaluation, and the per-glacier*)
(* workers of time_to_stable, calibration_runs and                         *)
(* synthetic_experiments_parallel.  A file is [dir, file, suffix]: dir the *)
(* glacier directory, file the name up to the suffix, suffix the           *)
(* characters of output_filesuffix (after the str(y0) every suffix of a    *)
(* search starts with).  A flow-model run writes model_geometry<suffix>.nc *)
(* and model_diagnostics<suffix>.nc.                                       *)
(***************************************************************************)
\* '_random_', '_past', '_synthetic_experiment', '_calibration_random_',
\* '_calibration_past_' and '0.0' as character codes
RandomTag == <<95, 114, 97, 110, 100, 111, 109, 95>>
PastTag == <<95, 112, 97, 115, 116>>
SyntheticTag ==
    <<95, 115, 121, 110, 116, 104, 101, 116, 105, 99, 95,
      101, 120, 112, 101, 114, 105, 109, 101, 110, 116>>
CalibrationRandomTag ==
    <<95, 99, 97, 108, 105, 98, 114, 97, 116, 105, 111, 110, 95,
      114, 97, 110, 100, 111, 109, 95>>
CalibrationPastTag ==
    <<95, 99, 97, 108, 105, 98, 114, 97, 116, 105, 111, 110, 95,
      112, 97, 115, 116, 95>>
FirstOffsetChars == <<48, 46, 48>>

\* the two files tasks.run_random_climate / run_from_climate_data write
RunFiles(g, suffix) ==
    {[dir |-> g, file |-> "model_geometry", suffix |-> suffix],
     [dir |-> g, file |-> "model_diagnostics", suffix |-> suffix]}

\* _run_random_task, line 285: suffix = str(y0) + '_random_' + str(seed)
\* + '_' + str(temp_bias)
RandomSuffix(m) == RandomTag \o SuffixChars(m)

\* _run_to_present, lines 173-174: s = init_filesuffix.split('_random')[-1];
\* output_filesuffix = str(ys) + '_past' + s + '_' + str(int(init_yr))
PastSuffixNoYear(c) == PastTag \o <<95>> \o SuffixChars(c.suffix)
PastSuffix(c) ==
    PastTag \o <<95>> \o SuffixChars(c.suffix) \o <<95>> \o Digits(c.time)

\* the workers mapped over the glaciers of a batch
GlacierWorkers ==
    {"_single_time_to_stable", "find_mb_offset", "_run_parallel_experiment"}

\* what the worker of a glacier writes into gdir.dir: the first two windows
\* of the prober and years_to_stable; the runs of the first offset (0.0) of
\* the calibrator and its csv; the random run of the experiment (no suffix)
\* and the experiment
GlacierFiles(worker, g) ==
    CASE worker = "_single_time_to_stable" ->
            RunFiles(g, <<95>> \o Digits(Window))
            \cup RunFiles(g, <<95>> \o Digits(2 * Window))
            \cup {[dir |-> g, file |-> "diagnostics.json", suffix |-> <<>>]}
      [] worker = "find_mb_offset" ->
            RunFiles(g, CalibrationRandomTag \o FirstOffsetChars)
            \cup RunFiles(g, CalibrationPastTag \o FirstOffsetChars)
            \cup {[dir |-> g, file |-> "experiment_iteration.csv",
                   suffix |-> <<>>]}
      [] worker = "_run_parallel_experiment" ->
            RunFiles(g, <<>>) \cup RunFiles(g, SyntheticTag)

\* the workers of one round of _run_random_parallel, in task order
MemberWorkers(g, list) ==
    [k \in 1 .. Len(list) |->
        [task |-> list[k], files |-> RunFiles(g, RandomSuffix(list[k]))]]

\* lengths of random_run_list an extension round may start from: one row,
\* half of the rows and all of the rows requested so far
ReturnedSoFar(requestedSoFar) ==
    {1, requestedSoFar \div 2, requestedSoFar}

\* years of the candidates handed to evaluation
CandidateYears == {0, 30, StableYears}

\* the frames identification can return for an ensemble: up to MaxN
\* distinct rows <<row of list, year>>, sorted by suffix and time
CandidateFrames ==
    LET ens == EnsembleOf([j \in 1 .. NumMembers |->
                    [start |-> 0, peak |-> 300, top |-> 600, fall |-> 0,
                     level |-> 0]], 0)
        rows == (1 .. NumMembers) \X CandidateYears
        picks == UNION {[1 .. k -> rows] : k \in 1 .. MaxN}
    IN  {SortCandidates(ens, p) :
            p \in {p \in picks : \A a \in 1 .. Len(p) : \A b \in 1 .. Len(p) :
                                    a # b => p[a] # p[b]}}

\* the lists of glacier directories handed to a batch
RECURSIVE DistinctLists(_)
DistinctLists(S) ==
    {<<>>} \cup UNION {{<<g>> \o l : l \in DistinctLists(S \ {g})} : g \in S}

\* gdir.dir of the search whose rounds are running
FanDir == (CHOOSE f \in outputs[1].files : TRUE).dir

FanInit ==
    /\ pc = "fan_start"
    /\ ProberIdle
    /\ diag = StableYears
    /\ CalIdle
    /\ GenIdle
    /\ IdentIdle
    /\ StagesIdle

\* generation, line 509: the pool of the base round
FanBaseRound ==
    /\ pc = "fan_start"
    /\ \E g \in Glaciers :
            outputs' = MemberWorkers(g, BaseList)
    /\ fanout' = "_run_random_task"
    /\ pc' = "fan_base"
    /\ UNCHANGED <<pipelineVars, fitVars, expVars, batchVars, findVars>>

\* generation, lines 513-516: the pool of the biases -5 ... -3.05, seeded
\* from the length of the table so far
FanLowerRound ==
    /\ pc = "fan_base"
    /\ \E n \in ReturnedSoFar(Len(outputs)) :
            outputs' = outputs \o
                MemberWorkers(FanDir, ExtensionList(LowerBiases, n))
    /\ pc' = "fan_lower"
    /\ UNCHANGED <<pipelineVars, fitVars, expVars, batchVars, findVars, fanout>>

\* generation, lines 528-530: the pool of the biases 2.05 ... 3.0
FanUpperRound ==
    /\ pc \in {"fan_base", "fan_lower"}
    /\ \E n \in ReturnedSoFar(Len(outputs)) :
            outputs' = outputs \o
                MemberWorkers(FanDir, ExtensionList(UpperBiases, n))
    /\ pc' = "fan_done"
    /\ UNCHANGED <<pipelineVars, fitVars, expVars, batchVars, findVars, fanout>>

\* evaluation, lines 548-552: the pool of _run_to_present over the rows of
\* cand_df
FanCandidates ==
    /\ pc = "fan_start"
    /\ \E g \in Glaciers, frame \in CandidateFrames :
            outputs' = [k \in 1 .. Len(frame) |->
                            [task |-> frame[k],
                             files |-> RunFiles(g, PastSuffix(frame[k]))]]
    /\ fanout' = "_run_to_present"
    /\ pc' = "fan_done"
    /\ UNCHANGED <<pipelineVars, fitVars, expVars, batchVars, findVars>>

\* time_to_stable, calibration_runs, synthetic_experiments_parallel: the
\* pool of a worker over the glacier directories
FanGlaciers ==
    /\ pc = "fan_start"
    /\ \E worker \in GlacierWorkers, gdirs \in DistinctLists(Glaciers) :
            /\ gdirs # <<>>
            /\ fanout' = worker
            /\ outputs' = [k \in 1 .. Len(gdirs) |->
                            [task |-> gdirs[k],
                             files |-> GlacierFiles(worker, gdirs[k])]]
    /\ pc' = "fan_done"
    /\ UNCHANGED <<pipelineVars, fitVars, expVars, batchVars, findVars>>

FanNext ==
    \/ FanBaseRound
    \/ FanLowerRound
    \/ FanUpperRound
    \/ FanCandidates
    \/ FanGlaciers

SpecFan == FanInit /\ [][FanNext]_vars

====
